---- MODULE Spec2Model ----
(***************************************************************************)
(* A model of scripts/scan_todos.py: the registry loader, the per-file     *)
(* TODO scanner with its cursor loop and continuation loop, the project    *)
(* walk over the configured extensions, and the sort-and-write reporter.   *)
(*                                                                         *)
(* Text is modelled as sequences of one-character strings, so that the     *)
(* regular expressions, strip(), split(), the formatting of the line range *)
(* and its parsing back by the sort key are computed, not assumed.         *)
(* Cursor values (i, j) are Python's 0-based values; lines[i] in the       *)
(* source is lines[i + 1] here.                                            *)
(***************************************************************************)
EXTENDS Integers, Sequences, FiniteSets, TLC

----------------------------------------------------------------------------
(* Bounds of the model *)

\* longest file, in lines, of the files enumerated exhaustively
MaxLines == 3

\* longest run of plain lines put in front of a project file
MaxPad == 8

----------------------------------------------------------------------------
(* Text primitives: str.strip, str.startswith, str.split, int <-> decimal *)

\* the element of a one-element set; {e(v) : v \in {x}} computes x once and then
\* e on its value, where LET would compute x again at every use
The(S) == CHOOSE x \in S : TRUE

\* the whitespace str.strip() removes and \s matches, among the characters used
Whitespace == {" ", "\n"}

Drop(s, n) == SubSeq(s, n + 1, Len(s))

\* str.startswith
StartsWith(s, p) == Len(s) >= Len(p) /\ SubSeq(s, 1, Len(p)) = p

\* str.endswith
EndsWith(s, p) == Len(s) >= Len(p) /\ SubSeq(s, Len(s) - Len(p) + 1, Len(s)) = p

\* the `in` operator on two strings
Contains(s, p) == \E k \in 0..(Len(s) - Len(p)) : SubSeq(s, k + 1, k + Len(p)) = p

\* number of leading whitespace characters: what a greedy ^\s* consumes
LeadingWs(s) ==
    IF \E k \in 1..Len(s) : s[k] \notin Whitespace
    THEN (CHOOSE k \in 1..Len(s) :
              /\ s[k] \notin Whitespace
              /\ \A m \in 1..(k - 1) : s[m] \in Whitespace) - 1
    ELSE Len(s)

LStrip(s) == The({Drop(v, LeadingWs(v)) : v \in {s}})

TrailingWs(s) ==
    IF \E k \in 1..Len(s) : s[k] \notin Whitespace
    THEN Len(s) - (CHOOSE k \in 1..Len(s) :
              /\ s[k] \notin Whitespace
              /\ \A m \in (k + 1)..Len(s) : s[m] \in Whitespace)
    ELSE Len(s)

RStrip(s) == The({SubSeq(v, 1, Len(v) - TrailingWs(v)) : v \in {s}})

\* str.strip()
Strip(s) == LStrip(RStrip(s))

\* index of the first occurrence of character c in s, 0 when there is none
IndexOf(s, c) ==
    The({IF \E k \in 1..Len(v) : v[k] = c
         THEN CHOOSE k \in 1..Len(v) : v[k] = c /\ \A m \in 1..(k - 1) : v[m] # c
         ELSE 0 : v \in {s}})

\* str.split(sep) for a one-character separator
RECURSIVE Split(_, _)
Split(s, sep) ==
    The({IF IndexOf(v, sep) = 0
         THEN <<v>>
         ELSE <<SubSeq(v, 1, IndexOf(v, sep) - 1)>>
                  \o Split(Drop(v, IndexOf(v, sep)), sep) : v \in {s}})

Digits == <<"0", "1", "2", "3", "4", "5", "6", "7", "8", "9">>

\* the decimal text of a natural number, as an f-string writes it
RECURSIVE FormatInt(_)
FormatInt(n) ==
    IF n < 10 THEN <<Digits[n + 1]>>
    ELSE FormatInt(n \div 10) \o <<Digits[(n % 10) + 1]>>

DigitValue(c) == (CHOOSE k \in 1..10 : Digits[k] = c) - 1

\* int() of a decimal text
RECURSIVE ParseInt(_)
ParseInt(s) ==
    The({IF Len(v) = 1 THEN DigitValue(v[1])
         ELSE 10 * ParseInt(SubSeq(v, 1, Len(v) - 1)) + DigitValue(v[Len(v)])
             : v \in {s}})

\* code points of the characters that occur in paths: Python orders strings by them
CodePoint(c) ==
    CASE c = "-" -> 45
      [] c = "." -> 46
      [] c = "/" -> 47
      [] c \in {Digits[k] : k \in 1..10} -> 48 + DigitValue(c)
      [] c = "a" -> 97
      [] c = "b" -> 98
      [] c = "c" -> 99
      [] c = "e" -> 101
      [] c = "g" -> 103
      [] c = "p" -> 112
      [] c = "r" -> 114
      [] c = "s" -> 115
      [] c = "t" -> 116
      [] OTHER -> 0

\* s < t for Python strings
RECURSIVE StrLess(_, _)
StrLess(s, t) ==
    The({IF v[2] = <<>> THEN FALSE
         ELSE IF v[1] = <<>> THEN TRUE
         ELSE IF v[1][1] # v[2][1] THEN CodePoint(v[1][1]) < CodePoint(v[2][1])
         ELSE StrLess(Tail(v[1]), Tail(v[2])) : v \in {<<s, t>>}})

----------------------------------------------------------------------------
(* The grammars of scan_file_for_todos *)

CommentMarker == <<"/", "/">>
DocMarker == <<"/", "/", "/">>
TodoToken == <<"T", "O", "D", "O", ":">>

\* what the alternation (///?|//) consumes of a text that starts with //
MarkerLen(s) == IF StartsWith(s, DocMarker) THEN 3 ELSE 2

NoMatch == [matched |-> FALSE, prefix |-> <<>>, ids |-> <<>>, text |-> <<>>]

\* the text up to the line's newline: what (.*)$ captures
UpToNewline(s) ==
    The({IF IndexOf(v, "\n") = 0 THEN v ELSE SubSeq(v, 1, IndexOf(v, "\n") - 1)
             : v \in {s}})

\* \(([^)]+)\)\s*(.*)$ on the text c that follows TODO:\s* ; a is the line
\* without its indentation
MatchGroup(a, c) ==
    IF StartsWith(c, <<"(">>) /\ IndexOf(Drop(c, 1), ")") > 1
    THEN [matched |-> TRUE,
          prefix |-> SubSeq(a, 1, MarkerLen(a)),
          ids |-> SubSeq(c, 2, IndexOf(Drop(c, 1), ")")),
          text |-> UpToNewline(LStrip(Drop(c, IndexOf(Drop(c, 1), ")") + 1)))]
    ELSE NoMatch

\* TODO:\s* and the rest, on the text b that follows the marker and \s*
MatchToken(a, b) ==
    IF StartsWith(b, TodoToken)
    THEN The({MatchGroup(a, c) : c \in {LStrip(Drop(b, Len(TodoToken)))}})
    ELSE NoMatch

\* (///?|//)\s* and the rest, on the line without its indentation
MatchMarker(a) ==
    IF StartsWith(a, CommentMarker)
    THEN The({MatchToken(a, b) : b \in {LStrip(Drop(a, MarkerLen(a)))}})
    ELSE NoMatch

\* pattern.match(line) for ^\s*(///?|//)\s*TODO:\s*\(([^)]+)\)\s*(.*)$ :
\* groups 1, 2 and 3 as prefix, ids and text
MatchTodo(line) == The({MatchMarker(a) : a \in {LStrip(line)}})

\* the split with the empty tokens filtered out
ParseFeatureIdsNonEmpty(ids) ==
    The({SelectSeq([k \in 1..Len(pieces) |-> Strip(pieces[k])], LAMBDA f : f # <<>>)
             : pieces \in {Split(ids, ",")}})

\* [f.strip() for f in feature_ids_str.split(',')]
ParseFeatureIds(ids) ==
    The({[k \in 1..Len(pieces) |-> Strip(pieces[k])] : pieces \in {Split(ids, ",")}})

\* the invalid ids with the empty tokens left out of the warning
InvalidIdsNonEmpty(feature_ids, valid) ==
    SelectSeq(feature_ids, LAMBDA f : f \notin valid /\ f # <<>>)

\* [f for f in feature_ids if f not in valid_features]
InvalidIds(feature_ids, valid) ==
    SelectSeq(feature_ids, LAMBDA f : f \notin valid)

\* next_line.startswith('///') or next_line.startswith('//'), on the stripped line
IsCommentLine(line) ==
    \E next_line \in {Strip(line)} :
        StartsWith(next_line, DocMarker) \/ StartsWith(next_line, CommentMarker)

\* re.sub(r'^///?\s*', '', next_line).strip(), on the stripped line of a comment
ContinuationText(line) ==
    The({Strip(LStrip(Drop(next_line, MarkerLen(next_line))))
             : next_line \in {Strip(line)}})

\* the test without its check for TODO:
IsContinuationAnyComment(line) ==
    /\ IsCommentLine(line)
    /\ ContinuationText(line) # <<>>

\* the test of the continuation loop: a comment whose remainder is non-empty and
\* does not start with TODO:
IsContinuation(line) ==
    /\ IsCommentLine(line)
    /\ ContinuationText(line) # <<>>
    /\ ~StartsWith(ContinuationText(line), TodoToken)

\* full_description += ' ' + continuation
AppendContinuation(full_description, continuation) ==
    full_description \o <<" ">> \o continuation

NoDescription ==
    <<"N", "o", " ", "d", "e", "s", "c", "r", "i", "p", "t", "i", "o", "n", " ",
      "p", "r", "o", "v", "i", "d", "e", "d">>

\* full_description or "No description provided"
DescriptionOrDefault(full_description) ==
    IF full_description = <<>> THEN NoDescription ELSE full_description

\* the range with j taken for the index of the last consumed line
LineRangeOffByOne(i, j) == FormatInt(i + 1) \o <<"-">> \o FormatInt(j + 1)

\* f"{i + 1}-{j}"
LineRange(i, j) == FormatInt(i + 1) \o <<"-">> \o FormatInt(j)

\* int(x['line'].split('-')[0])
StartLine(todo) == ParseInt(Split(todo.line, "-")[1])

\* the end of the range, read back the same way
EndLine(todo) == ParseInt(Split(todo.line, "-")[2])

----------------------------------------------------------------------------
(* Paths *)

ProjectRoot == <<"/", "p">>

PathA == ProjectRoot \o <<"/", "a", ".", "r", "s">>
PathB == ProjectRoot \o <<"/", "b", ".", "r", "s">>
PathBuild == ProjectRoot \o <<"/", "t", "a", "r", "g", "e", "t", "/", "c", ".", "r", "s">>

Paths == {PathA, PathB, PathBuild}

\* os.path.relpath(file_path, os.getcwd()), the script being run from the project root
RelPath(file_path) ==
    IF StartsWith(file_path, ProjectRoot \o <<"/">>)
    THEN Drop(file_path, Len(ProjectRoot) + 1)
    ELSE file_path

\* 'target' in str(file_path) or '.git' in str(file_path)
Excluded(file_path) ==
    \/ Contains(file_path, <<"t", "a", "r", "g", "e", "t">>)
    \/ Contains(file_path, <<".", "g", "i", "t">>)

ExtRs == <<".", "r", "s">>
ExtS == <<"s">>

----------------------------------------------------------------------------
(* The state of one run, and of the files it reads and writes *)

VARIABLES
    registry_doc,      \* FEATURE_LIST.yaml: whether it can be read, the ids it declares
    fs,                \* the source files: path -> [exists, readable, lines]
    dir_order,         \* the order in which rglob walks the files
    extensions,        \* the extensions handed to scan_project
    output_writable,   \* whether TODO.json can be opened for writing
    output,            \* TODO.json: [exists, data]
    stdout,            \* the lines printed so far
    pc,                \* the statement the run is at
    valid_features,    \* main: the loaded registry
    ext_idx,           \* scan_project: extensions taken so far
    pending,           \* scan_project: files of the current rglob still to visit
    all_todos,         \* scan_project: the collected list, kept as returned
    main_todos,        \* main: the returned list, sorted in place
    lines,             \* scan_file_for_todos: f.readlines()
    i,                 \* scan_file_for_todos: the cursor
    j,                 \* scan_file_for_todos: the continuation cursor
    todos,             \* scan_file_for_todos: the annotations of this file
    feature_ids,       \* scan_file_for_todos: the dependencies of the current match
    full_description,  \* scan_file_for_todos: the description being built
    rerun,             \* whether this is a second run of the script
    prev_todos,        \* what the first run collected
    prev_stdout,       \* what the first run printed
    removed            \* the unreadable files deleted before the second run

vars == <<registry_doc, fs, dir_order, extensions, output_writable, output, stdout,
          pc, valid_features, ext_idx, pending, all_todos, main_todos, lines, i, j,
          todos, feature_ids, full_description, rerun, prev_todos,
          prev_stdout, removed>>

env == <<registry_doc, fs, dir_order, extensions, output_writable>>
history == <<rerun, prev_todos, prev_stdout, removed>>
fileVars == <<lines, i, j, todos, feature_ids, full_description>>

\* one printed line
Printed(kind, file, line, ids) == [kind |-> kind, file |-> file, line |-> line, ids |-> ids]

Say(kind) == Printed(kind, <<>>, 0, <<>>)

\* print(f"Warning: {file_path}:{i+1}: Invalid feature IDs: {invalid_ids}")
InvalidIdsWarning(file_path, line, invalid_ids) ==
    Printed("Invalid feature IDs", file_path, line, invalid_ids)

\* print(f"Warning: Could not read {file_path}: {e}")
CouldNotReadWarning(file_path) == Printed("Could not read", file_path, 0, <<>>)

\* what the match on line i prints: the warning, when some id is not in the registry
ValidationOutput(file_path, line, ids, valid) ==
    IF InvalidIds(ids, valid) # <<>>
    THEN <<InvalidIdsWarning(file_path, line, InvalidIds(ids, valid))>>
    ELSE <<>>

\* the annotation with the ids the registry does not know dropped
TodoOnlyValid(file_path, line, description, dependencies) ==
    [file |-> RelPath(file_path),
     line |-> line,
     description |-> DescriptionOrDefault(description),
     dependencies |-> SelectSeq(dependencies, LAMBDA f : f \in valid_features)]

\* the dictionary appended to todos
Todo(file_path, line, description, dependencies) ==
    [file |-> RelPath(file_path),
     line |-> line,
     description |-> DescriptionOrDefault(description),
     dependencies |-> dependencies]

\* Path(root_dir).rglob(f'*{ext}'): the files whose name ends with ext, in walk order
Rglob(ext) == SelectSeq(dir_order, LAMBDA p : fs[p].exists /\ EndsWith(p, ext))

\* the key with the line range compared as text
KeyLessByText(x, y) ==
    \/ StrLess(x.file, y.file)
    \/ x.file = y.file /\ StrLess(x.line, y.line)

\* the sort key of main: (x['file'], int(x['line'].split('-')[0]))
KeyLess(x, y) ==
    \/ StrLess(x.file, y.file)
    \/ x.file = y.file /\ StartLine(x) < StartLine(y)

\* list.sort(key=...): a stable sort, here by insertion after the equal keys
RECURSIVE SortByKey(_)
SortByKey(s) ==
    IF s = <<>> THEN <<>>
    ELSE The({SelectSeq(rest, LAMBDA y : ~KeyLess(s[Len(s)], y))
                  \o <<s[Len(s)]>>
                  \o SelectSeq(rest, LAMBDA y : KeyLess(s[Len(s)], y))
                  : rest \in {SortByKey(SubSeq(s, 1, Len(s) - 1))}})

\* the records json.dump writes: the four fields of each annotation
OutputData(sorted) ==
    [k \in 1..Len(sorted) |->
        [file |-> sorted[k].file,
         line |-> sorted[k].line,
         description |-> sorted[k].description,
         dependencies |-> sorted[k].dependencies]]

----------------------------------------------------------------------------
(* main: loading the registry *)

\* load_feature_ids returns the ids the document declares
LoadFeatureIds ==
    /\ pc = "load"
    /\ registry_doc.readable
    /\ valid_features' = registry_doc.ids
    /\ stdout' = stdout \o <<Say("Loading feature list"),
                             Printed("Found valid feature IDs", <<>>,
                                     Cardinality(registry_doc.ids), <<>>),
                             Say("Scanning project")>>
    /\ ext_idx' = 0
    /\ all_todos' = <<>>
    /\ pc' = "extensions"
    /\ UNCHANGED <<env, output, pending, main_todos, fileVars, history>>

\* the failed load caught and the run going on with an empty registry
LoadFeatureIdsFailsCaught ==
    /\ pc = "load"
    /\ ~registry_doc.readable
    /\ valid_features' = {}
    /\ stdout' = stdout \o <<Say("Loading feature list")>>
    /\ ext_idx' = 0
    /\ all_todos' = <<>>
    /\ pc' = "extensions"
    /\ UNCHANGED <<env, output, pending, main_todos, fileVars, history>>

\* open(feature_list_path) raises: nothing catches it and the run ends
LoadFeatureIdsFails ==
    /\ pc = "load"
    /\ ~registry_doc.readable
    /\ stdout' = stdout \o <<Say("Loading feature list")>>
    /\ pc' = "failed"
    /\ UNCHANGED <<env, output, valid_features, ext_idx, pending, all_todos,
                   main_todos, fileVars, history>>

----------------------------------------------------------------------------
(* scan_project: the loop over the extensions and over each rglob *)

\* for ext in extensions: the next extension's rglob starts
NextExtension ==
    /\ pc = "extensions"
    /\ ext_idx < Len(extensions)
    /\ pending' = Rglob(extensions[ext_idx + 1])
    /\ ext_idx' = ext_idx + 1
    /\ pc' = "files"
    /\ UNCHANGED <<env, output, stdout, valid_features, all_todos, main_todos,
                   fileVars, history>>

\* the rglob of the current extension is exhausted
ExtensionDone ==
    /\ pc = "files"
    /\ pending = <<>>
    /\ pc' = "extensions"
    /\ UNCHANGED <<env, output, stdout, valid_features, ext_idx, pending, all_todos,
                   main_todos, fileVars, history>>

\* a path with 'target' or '.git' in it is passed over
SkipExcluded ==
    /\ pc = "files"
    /\ pending # <<>>
    /\ Excluded(Head(pending))
    /\ pending' = Tail(pending)
    /\ UNCHANGED <<env, output, stdout, pc, valid_features, ext_idx, all_todos,
                   main_todos, fileVars, history>>

\* scan_file_for_todos: the file is read into lines
ReadLines ==
    /\ pc = "files"
    /\ pending # <<>>
    /\ ~Excluded(Head(pending))
    /\ fs[Head(pending)].readable
    /\ lines' = fs[Head(pending)].lines
    /\ i' = 0
    /\ j' = 0
    /\ todos' = <<>>
    /\ feature_ids' = <<>>
    /\ full_description' = <<>>
    /\ pc' = "line"
    /\ UNCHANGED <<env, output, stdout, valid_features, ext_idx, pending, all_todos,
                   main_todos, history>>

\* the read failure not caught: the run ends
ReadFailsUncaught ==
    /\ pc = "files"
    /\ pending # <<>>
    /\ ~Excluded(Head(pending))
    /\ ~fs[Head(pending)].readable
    /\ pc' = "failed"
    /\ UNCHANGED <<env, output, stdout, valid_features, ext_idx, pending, all_todos,
                   main_todos, fileVars, history>>

\* scan_file_for_todos: the read raises; the warning is printed and the empty list
\* returned, which all_todos.extend leaves all_todos as it was
ReadFails ==
    /\ pc = "files"
    /\ pending # <<>>
    /\ ~Excluded(Head(pending))
    /\ ~fs[Head(pending)].readable
    /\ stdout' = Append(stdout, CouldNotReadWarning(Head(pending)))
    /\ all_todos' = all_todos \o <<>>
    /\ pending' = Tail(pending)
    /\ UNCHANGED <<env, output, pc, valid_features, ext_idx, main_todos, fileVars,
                   history>>

\* scan_project returns all_todos to main
ScanProjectReturns ==
    /\ pc = "extensions"
    /\ ext_idx >= Len(extensions)
    /\ main_todos' = all_todos
    /\ pc' = "sort"
    /\ UNCHANGED <<env, output, stdout, valid_features, ext_idx, pending, all_todos,
                   fileVars, history>>

----------------------------------------------------------------------------
(* scan_file_for_todos: the cursor loop and the continuation loop *)

\* the line under the cursor does not match: i += 1
NoTodoOnLine ==
    /\ pc = "line"
    /\ i < Len(lines)
    /\ ~MatchTodo(lines[i + 1]).matched
    /\ i' = i + 1
    /\ UNCHANGED <<env, output, stdout, pc, valid_features, ext_idx, pending,
                   all_todos, main_todos, lines, j, todos, feature_ids,
                   full_description, history>>

\* the line under the cursor matches: its ids are split and validated, the warning
\* printed, and the continuation loop starts on the next line
TodoOnLine ==
    /\ pc = "line"
    /\ i < Len(lines)
    /\ MatchTodo(lines[i + 1]).matched
    /\ LET match == MatchTodo(lines[i + 1])
           ids == ParseFeatureIds(match.ids)
       IN  /\ feature_ids' = ids
           /\ stdout' = stdout \o ValidationOutput(Head(pending), i + 1, ids,
                                                   valid_features)
           /\ full_description' = Strip(match.text)
    /\ j' = i + 1
    /\ pc' = "continuation"
    /\ UNCHANGED <<env, output, valid_features, ext_idx, pending, all_todos,
                   main_todos, lines, i, todos, history>>

\* while j < len(lines), and no break
ContinuationAhead == j < Len(lines) /\ IsContinuation(lines[j + 1])

\* the next line continues the comment: its text is appended and j += 1
ConsumeContinuation ==
    /\ pc = "continuation"
    /\ ContinuationAhead
    /\ full_description' =
           AppendContinuation(full_description, ContinuationText(lines[j + 1]))
    /\ j' = j + 1
    /\ UNCHANGED <<env, output, stdout, pc, valid_features, ext_idx, pending,
                   all_todos, main_todos, lines, i, todos, feature_ids, history>>

\* the continuation loop ends (end of file, or a break): the annotation is
\* appended and the cursor moves past the consumed lines
AppendTodo ==
    /\ pc = "continuation"
    /\ ~ContinuationAhead
    /\ todos' = Append(todos, Todo(Head(pending), LineRange(i, j), full_description,
                                   feature_ids))
    /\ i' = j
    /\ pc' = "line"
    /\ UNCHANGED <<env, output, stdout, valid_features, ext_idx, pending, all_todos,
                   main_todos, lines, j, feature_ids, full_description, history>>

\* the cursor is past the last line: todos is returned and all_todos extended
ReturnTodos ==
    /\ pc = "line"
    /\ i >= Len(lines)
    /\ all_todos' = all_todos \o todos
    /\ pending' = Tail(pending)
    /\ pc' = "files"
    /\ UNCHANGED <<env, output, stdout, valid_features, ext_idx, main_todos,
                   fileVars, history>>

----------------------------------------------------------------------------
(* main: sorting and writing *)

SortTodos ==
    /\ pc = "sort"
    /\ main_todos' = SortByKey(main_todos)
    /\ stdout' = stdout \o <<Printed("Found TODO comments", <<>>, Len(main_todos), <<>>),
                             Say("Writing")>>
    /\ pc' = "write"
    /\ UNCHANGED <<env, output, valid_features, ext_idx, pending, all_todos,
                   fileVars, history>>

WriteOutput ==
    /\ pc = "write"
    /\ output_writable
    /\ output' = [exists |-> TRUE, data |-> OutputData(main_todos)]
    /\ stdout' = Append(stdout, Say("Done!"))
    /\ pc' = "done"
    /\ UNCHANGED <<env, valid_features, ext_idx, pending, all_todos, main_todos,
                   fileVars, history>>

\* open(output_path, 'w') raises: nothing catches it and the run ends
WriteOutputFails ==
    /\ pc = "write"
    /\ ~output_writable
    /\ pc' = "failed"
    /\ UNCHANGED <<env, output, stdout, valid_features, ext_idx, pending, all_todos,
                   main_todos, fileVars, history>>

----------------------------------------------------------------------------
(* Running the script again: only the registry document may have changed and *)
(* unreadable source files may have been deleted; TODO.json stays on disk    *)

IdA == <<"A">>
IdB == <<"B">>
IdC == <<"C">>

\* FEATURE_LIST.yaml as load_feature_ids sees it: unreadable, or the set of ids of
\* its `- id: <ID>` lines; an id is never the empty string ([A-Z0-9-]+)
RegistryDocs ==
    {[readable |-> FALSE, ids |-> {}],
     [readable |-> TRUE, ids |-> {}],
     [readable |-> TRUE, ids |-> {IdA}]}

UnreadableFiles == {p \in Paths : fs[p].exists /\ ~fs[p].readable /\ ~Excluded(p)}

Absent == [exists |-> FALSE, readable |-> FALSE, lines |-> <<>>]

Rerun ==
    /\ pc = "done"
    /\ ~rerun
    /\ rerun' = TRUE
    /\ prev_todos' = all_todos
    /\ prev_stdout' = stdout
    /\ registry_doc' \in RegistryDocs
    /\ removed' \in SUBSET UnreadableFiles
    /\ fs' = [p \in Paths |-> IF p \in removed' THEN Absent ELSE fs[p]]
    /\ stdout' = <<>>
    /\ pc' = "load"
    /\ valid_features' = {}
    /\ ext_idx' = 0
    /\ pending' = <<>>
    /\ all_todos' = <<>>
    /\ main_todos' = <<>>
    /\ lines' = <<>>
    /\ i' = 0
    /\ j' = 0
    /\ todos' = <<>>
    /\ feature_ids' = <<>>
    /\ full_description' = <<>>
    /\ UNCHANGED <<dir_order, extensions, output_writable, output>>

----------------------------------------------------------------------------
(* The lines and files the runs are given *)

Nl == <<"\n">>

\* "// TODO: (A,A) fix"
LineTodo ==
    CommentMarker \o <<" ">> \o TodoToken \o <<" ", "(", "A", ",", "A", ")", " ",
                                                "f", "i", "x">> \o Nl

\* " /// TODO:( A, B ,C)  "
LineDocTodo ==
    <<" ">> \o DocMarker \o <<" ">> \o TodoToken
            \o <<"(", " ", "A", ",", " ", "B", " ", ",", "C", ")", " ", " ">> \o Nl

\* "//TODO: (A,) y "
LineTrailingComma ==
    CommentMarker \o TodoToken \o <<" ", "(", "A", ",", ")", " ", "y", " ">> \o Nl

\* "// TODO: () x": no identifier, so not an annotation
LineEmptyGroup ==
    CommentMarker \o <<" ">> \o TodoToken \o <<" ", "(", ")", " ", "x">> \o Nl

\* "// more"
LineMore == CommentMarker \o <<" ", "m", "o", "r", "e">> \o Nl

\* " ///  z "
LineDocText == <<" ">> \o DocMarker \o <<" ", " ", "z", " ">> \o Nl

\* "//"
LineBareComment == CommentMarker \o Nl

\* "//// TODO: (A)": a fourth slash, so not an annotation
LineFourSlashes ==
    DocMarker \o <<"/", " ">> \o TodoToken \o <<" ", "(", "A", ")">> \o Nl

\* "x"
LineCode == <<"x">> \o Nl

LineSet ==
    {LineTodo, LineDocTodo, LineTrailingComma, LineEmptyGroup, LineMore, LineDocText,
     LineBareComment, LineFourSlashes, LineCode}

\* every file of at most n lines over LineSet
FilesUpTo(n) == UNION {[1..k -> LineSet] : k \in 0..n}

Readable(content) == [exists |-> TRUE, readable |-> TRUE, lines |-> content]

Unreadable == [exists |-> TRUE, readable |-> FALSE, lines |-> <<>>]

\* k lines of code in front of a file
Pad(k) == [n \in 1..k |-> LineCode]

\* the files of the project runs: annotations on lines 1 and 2, on lines
\* MaxPad + 1 and MaxPad + 2, one with a continuation, and none
ProjectFilesA ==
    {Unreadable,
     Readable(<<LineTodo, LineTrailingComma>>),
     Readable(Pad(MaxPad) \o <<LineTodo, LineTrailingComma>>),
     Readable(<<LineDocTodo, LineMore, LineCode>>)}

ProjectFilesB ==
    {Unreadable, Absent,
     Readable(<<LineCode>>),
     Readable(Pad(MaxPad) \o <<LineDocTodo>>)}

BuildFile == Readable(<<LineTodo>>)

DirOrders ==
    {<<PathA, PathBuild, PathB>>, <<PathB, PathA, PathBuild>>}

ExtensionLists == {<<ExtRs>>, <<ExtRs, ExtS>>}

InitRun ==
    /\ output = [exists |-> FALSE, data |-> <<>>]
    /\ stdout = <<>>
    /\ pc = "load"
    /\ valid_features = {}
    /\ ext_idx = 0
    /\ pending = <<>>
    /\ all_todos = <<>>
    /\ main_todos = <<>>
    /\ lines = <<>>
    /\ i = 0
    /\ j = 0
    /\ todos = <<>>
    /\ feature_ids = <<>>
    /\ full_description = <<>>
    /\ rerun = FALSE
    /\ prev_todos = <<>>
    /\ prev_stdout = <<>>
    /\ removed = {}

\* a project of two source files and a build artifact
Init ==
    /\ registry_doc \in RegistryDocs
    /\ \E a \in ProjectFilesA, b \in ProjectFilesB :
           fs = [p \in Paths |-> IF p = PathA THEN a ELSE IF p = PathB THEN b
                                 ELSE BuildFile]
    /\ dir_order \in DirOrders
    /\ extensions \in ExtensionLists
    /\ output_writable \in BOOLEAN
    /\ InitRun

\* a project of one source file, every file of at most MaxLines lines
InitFile ==
    /\ registry_doc \in RegistryDocs
    /\ \E a \in {Readable(c) : c \in FilesUpTo(MaxLines)} \cup {Unreadable} :
           fs = [p \in Paths |-> IF p = PathA THEN a ELSE IF p = PathB THEN Absent
                                 ELSE BuildFile]
    /\ dir_order = <<PathA, PathBuild, PathB>>
    /\ extensions = <<ExtRs>>
    /\ output_writable \in {TRUE} \cup {w \in {FALSE} : fs[PathA].lines = <<>>}
    /\ InitRun

\* the steps of the script
Step ==
    \/ LoadFeatureIds
    \/ LoadFeatureIdsFails
    \/ NextExtension
    \/ ExtensionDone
    \/ SkipExcluded
    \/ ReadLines
    \/ ReadFails
    \/ ScanProjectReturns
    \/ NoTodoOnLine
    \/ TodoOnLine
    \/ ConsumeContinuation
    \/ AppendTodo
    \/ ReturnTodos
    \/ SortTodos
    \/ WriteOutput
    \/ WriteOutputFails

Next == Step \/ Rerun

Spec == Init /\ [][Next]_vars

SpecFile == InitFile /\ [][Next]_vars

\* the interpreter runs the script to its end
FairSpec == Init /\ [][Next]_vars /\ WF_vars(Step)

----------------------------------------------------------------------------
(* Properties of scan_file_for_todos, checked over every file of SpecFile *)

\* the 1-based lines of the file under scan that match the TODO grammar
TodoLines == {k \in 1..Len(lines) : MatchTodo(lines[k]).matched}

\* C1: every annotation's line range is "<start>-<end>" where start is the 1-based
\* line that matched the TODO grammar and end is the last line of the maximal run
\* of continuation lines right after it (end = start when the run is empty), so
\* start <= end <= number of lines.
C1_LineRange ==
    \A k \in 1..Len(todos) :
        LET t == todos[k]
            s == StartLine(t)
            e == EndLine(t)
        IN  /\ t.line = FormatInt(s) \o <<"-">> \o FormatInt(e)
            /\ 1 <= s /\ s <= e /\ e <= Len(lines)
            /\ s \in TodoLines
            /\ \A m \in (s + 1)..e : IsContinuation(lines[m])
            /\ e = Len(lines) \/ ~IsContinuation(lines[e + 1])

\* an annotation with one continuation line, then one on the last line of the file
C1_Witness ==
    /\ Len(todos) = 2
    /\ EndLine(todos[1]) = StartLine(todos[1]) + 1
    /\ StartLine(todos[2]) = Len(lines)
    /\ EndLine(todos[2]) = Len(lines)

RECURSIVE JoinWithSpaces(_)
JoinWithSpaces(pieces) ==
    IF pieces = <<>> THEN <<>>
    ELSE IF Len(pieces) = 1 THEN pieces[1]
    ELSE pieces[1] \o <<" ">> \o JoinWithSpaces(Tail(pieces))

\* the trimmed initial text of line s, when there is any, then the remainders of
\* the continuation lines s + 1 .. e
DescriptionPieces(s, e) ==
    LET initial == Strip(MatchTodo(lines[s]).text)
    IN (IF initial = <<>> THEN <<>> ELSE <<initial>>)
           \o [m \in 1..(e - s) |-> ContinuationText(lines[s + m])]

\* C2: every annotation's description is the trimmed initial text and the
\* remainders of its continuation lines joined by single spaces, with no leading
\* or trailing whitespace, and is 'No description provided' exactly when the
\* initial text is empty and no continuation line was consumed.
C2_Description ==
    \A k \in 1..Len(todos) :
        LET t == todos[k]
            s == StartLine(t)
            e == EndLine(t)
        IN  /\ t.description =
                   IF DescriptionPieces(s, e) = <<>> THEN NoDescription
                   ELSE JoinWithSpaces(DescriptionPieces(s, e))
            /\ t.description = Strip(t.description)
            /\ t.description = NoDescription
                   <=> (Strip(MatchTodo(lines[s]).text) = <<>> /\ e = s)

\* the positions of the commas of a text, and its k-th comma-delimited piece
CommaPositions(g) == {p \in 1..Len(g) : g[p] = ","}

NthComma(g, k) ==
    IF k = 0 THEN 0
    ELSE IF k > Cardinality(CommaPositions(g)) THEN Len(g) + 1
    ELSE CHOOSE p \in CommaPositions(g) :
             Cardinality({q \in CommaPositions(g) : q < p}) = k - 1

NthPiece(g, k) == SubSeq(g, NthComma(g, k - 1) + 1, NthComma(g, k) - 1)

\* C6: the dependencies are the comma-delimited pieces of the parenthesized group,
\* each trimmed, in written order, duplicates and empty tokens kept: there are as
\* many as commas plus one; '(A, B ,C)' gives A, B, C; '(A,)' gives A and the empty
\* string; '(A,A)' gives A twice.
C6_Dependencies ==
    \A k \in 1..Len(todos) :
        LET t == todos[k]
            g == MatchTodo(lines[StartLine(t)]).ids
        IN  /\ Len(t.dependencies) = Cardinality(CommaPositions(g)) + 1
            /\ \A n \in 1..Len(t.dependencies) :
                   t.dependencies[n] = Strip(NthPiece(g, n))
            /\ g = <<" ", "A", ",", " ", "B", " ", ",", "C">>
                   => t.dependencies = <<IdA, IdB, IdC>>
            /\ g = <<"A", ",">> => t.dependencies = <<IdA, <<>>>>
            /\ g = <<"A", ",", "A">> => t.dependencies = <<IdA, IdA>>

\* the three groups of the claim in one file
C6_Witness ==
    /\ Len(todos) = 3
    /\ todos[1].dependencies = <<IdA, IdB, IdC>>
    /\ todos[2].dependencies = <<IdA, <<>>>>
    /\ todos[3].dependencies = <<IdA, IdA>>

\* the printed lines of one kind
Lines(out, kind) == SelectSeq(out, LAMBDA w : w.kind = kind)

\* the ids of an annotation that the registry does not hold, in written order
AbsentIds(t) == SelectSeq(t.dependencies, LAMBDA f : f \notin valid_features)

\* the collected annotations that reference an id the registry does not hold
Offending == SelectSeq(all_todos, LAMBDA t : AbsentIds(t) # <<>>)

\* C3: between files and after the scan, the 'Invalid feature IDs' warnings are, in
\* order, one per collected annotation that references an absent id, each naming
\* the annotation's file and start line and all its absent ids in written order,
\* empty tokens and repeats included; the other annotations have no warning.
C3_Warnings ==
    pc \notin {"line", "continuation"} =>
        LET warnings == Lines(stdout, "Invalid feature IDs")
        IN  /\ Len(warnings) = Len(Offending)
            /\ \A k \in 1..Len(warnings) :
                   /\ RelPath(warnings[k].file) = Offending[k].file
                   /\ warnings[k].line = StartLine(Offending[k])
                   /\ warnings[k].ids = AbsentIds(Offending[k])

\* a finished scan with an annotation whose ids are all known, one warned about
\* for an empty token and one for two absent ids
C3_Witness ==
    /\ pc = "done"
    /\ Len(all_todos) = 3
    /\ Len(Offending) = 2
    /\ \E k \in 1..2 : Lines(stdout, "Invalid feature IDs")[k].ids = <<<<>>>>
    /\ \E k \in 1..2 : Lines(stdout, "Invalid feature IDs")[k].ids = <<IdB, IdC>>

\* C4: a second run over the same files under any registry collects the same
\* annotations, in the same order, as the first run did under its registry.
C4_RegistryIndependence ==
    (rerun /\ removed = {} /\ pc \in {"sort", "write", "done"})
        => all_todos = prev_todos

\* the two runs printed different warnings and collected the same annotations,
\* one of them with an id the second registry does not hold
C4_Witness ==
    /\ rerun /\ removed = {} /\ pc = "done"
    /\ Lines(stdout, "Invalid feature IDs") # Lines(prev_stdout, "Invalid feature IDs")
    /\ Offending # <<>>
    /\ all_todos = prev_todos

\* C9: every iteration of the cursor loop moves the cursor forward by at least one
\* line and never past the end; at the loop head the annotations are, in order,
\* exactly the lines before the cursor that match the TODO grammar, their ranges
\* disjoint; a file with no matching line gives no annotation and no warning about
\* ids.
C9_CursorLoop ==
    /\ [][/\ (pc = "line" /\ pc' = "line") => (i' = i + 1 /\ i' <= Len(lines))
          /\ (pc = "line" /\ pc' = "continuation") => (i' = i /\ j' = i + 1)
          /\ (pc = "continuation" /\ pc' = "continuation")
                 => (i' = i /\ j' = j + 1 /\ j' <= Len(lines))
          /\ (pc = "continuation" /\ pc' = "line")
                 => (i' = j /\ i' > i /\ i' <= Len(lines))]_vars
    /\ [](pc = "line" =>
            /\ Len(todos) = Cardinality({k \in TodoLines : k <= i})
            /\ \A k \in 1..Len(todos) : StartLine(todos[k]) \in TodoLines
            /\ \A k \in 1..(Len(todos) - 1) :
                   EndLine(todos[k]) < StartLine(todos[k + 1])
            /\ \A k \in 1..Len(todos) : EndLine(todos[k]) <= i)
    /\ []((pc = "line" /\ TodoLines = {}) =>
            /\ todos = <<>>
            /\ \A k \in 1..Len(stdout) :
                   stdout[k].kind = "Invalid feature IDs" => stdout[k].file # Head(pending))

\* the end of a file whose first two lines each start an annotation, the second
\* with a continuation line
C9_Witness ==
    /\ pc = "line"
    /\ Len(lines) = 3
    /\ i = 3
    /\ Len(todos) = 2
    /\ StartLine(todos[1]) = 1 /\ EndLine(todos[1]) = 1
    /\ StartLine(todos[2]) = 2 /\ EndLine(todos[2]) = 3

----------------------------------------------------------------------------
(* Properties of scan_project and main, checked over the projects of Spec *)

\* how often a record occurs in a list
Count(list, r) == Cardinality({k \in 1..Len(list) : list[k] = r})

\* C5: the written output holds the collected annotations, each as often as it was
\* collected and with exactly the fields file, line, description and dependencies,
\* ordered by file path and, within a file, by the number of the start line: of
\* two adjacent records the first has the smaller path, or the same path and a
\* start line that is not larger.
C5_SortedOutput ==
    pc = "done" =>
        /\ output.exists
        /\ Len(output.data) = Len(all_todos)
        /\ \A k \in 1..Len(all_todos) :
               Count(output.data, all_todos[k]) = Count(all_todos, all_todos[k])
        /\ \A k \in 1..Len(output.data) :
               DOMAIN output.data[k] = {"file", "line", "description", "dependencies"}
        /\ \A k \in 1..(Len(output.data) - 1) :
               \/ StrLess(output.data[k].file, output.data[k + 1].file)
               \/ /\ output.data[k].file = output.data[k + 1].file
                  /\ StartLine(output.data[k]) <= StartLine(output.data[k + 1])

\* b.rs was collected before a.rs; in the output a.rs line 9 precedes a.rs line 10,
\* which precedes b.rs line 9
C5_Witness ==
    /\ pc = "done"
    /\ all_todos # output.data
    /\ all_todos[1].file = RelPath(PathB)
    /\ \E k \in 1..(Len(output.data) - 2) :
           /\ output.data[k].file = RelPath(PathA)
           /\ StartLine(output.data[k]) = 9
           /\ output.data[k + 1].file = RelPath(PathA)
           /\ StartLine(output.data[k + 1]) = 10
           /\ output.data[k + 2].file = RelPath(PathB)
           /\ StartLine(output.data[k + 2]) = 9

\* how many of the configured extensions a path matches
Visits(p) == Cardinality({k \in 1..Len(extensions) : EndsWith(p, extensions[k])})

\* C7: a read that fails prints one 'Could not read' warning for the file, leaves
\* the collected annotations as they were and goes on with the next file; after the
\* scan each unreadable file has one warning per visit and no annotation, and the
\* collected list is the one the same scan collects with those files deleted.
C7_UnreadableFile ==
    /\ [][(pc = "files" /\ pending # <<>> /\ ~Excluded(Head(pending))
              /\ ~fs[Head(pending)].readable)
          => /\ stdout' = Append(stdout, CouldNotReadWarning(Head(pending)))
             /\ all_todos' = all_todos
             /\ pending' = Tail(pending)
             /\ pc' = "files"]_vars
    /\ [](pc \in {"sort", "write", "done"} =>
            \A p \in Paths :
                (fs[p].exists /\ ~fs[p].readable /\ ~Excluded(p)) =>
                    /\ Count(stdout, CouldNotReadWarning(p)) = Visits(p)
                    /\ \A k \in 1..Len(all_todos) : all_todos[k].file # RelPath(p))
    /\ []((rerun /\ removed # {} /\ pc \in {"sort", "write", "done"})
            => all_todos = prev_todos)

\* the first file of the walk could not be read in the first run and was deleted
\* before the second, and both runs collected the annotations of the file after it
C7_Witness ==
    /\ rerun /\ pc = "done"
    /\ Head(dir_order) \in removed
    /\ Count(prev_stdout, CouldNotReadWarning(Head(dir_order))) >= 1
    /\ all_todos # <<>>
    /\ all_todos = prev_todos

\* the place of a statement in the order load, scan, sort, write, end
Phase(at) ==
    CASE at = "load" -> 1
      [] at \in {"extensions", "files", "line", "continuation"} -> 2
      [] at = "sort" -> 3
      [] at = "write" -> 4
      [] at \in {"done", "failed"} -> 5

\* C8: a run goes through load, scan, sort and write in this order; it ends in
\* failure exactly when the registry cannot be read or the output cannot be
\* written; a failed registry read ends the run before any file is scanned and
\* leaves the output as it was; the output changes only in the write that follows
\* the finished scan; and a run whose registry can be read and whose output can
\* be written ends with 'Done!' whatever warnings it printed.
C8_RunOrder ==
    /\ [][/\ pc' # pc =>
                \/ Phase(pc') = Phase(pc)
                \/ Phase(pc') = Phase(pc) + 1
                \/ pc = "load" /\ pc' = "failed"
                \/ pc = "done" /\ pc' = "load" /\ rerun'
          /\ output' # output =>
                /\ pc = "write" /\ pc' = "done"
                /\ ext_idx = Len(extensions) /\ pending = <<>>
                /\ output'.data = OutputData(main_todos)
          /\ (pc = "load" /\ ~registry_doc.readable) =>
                (pc' \in {"load", "failed"} /\ all_todos' = all_todos
                     /\ pending' = pending /\ lines' = lines)]_vars
    /\ [](/\ Phase(pc) = 5 =>
               (pc = "failed" <=> (~registry_doc.readable \/ ~output_writable))
          /\ pc = "done" => stdout[Len(stdout)] = Say("Done!")
          /\ Lines(stdout, "Done!") # <<>> => pc = "done")
    /\ (pc = "load") ~> (Phase(pc) = 5)

\* a run that ended with 'Done!' after warning about an unreadable file and about
\* an invalid id
C8_Witness ==
    /\ pc = "done"
    /\ Lines(stdout, "Could not read") # <<>>
    /\ Lines(stdout, "Invalid feature IDs") # <<>>
    /\ stdout[Len(stdout)] = Say("Done!")

\* C10: whatever the list of extensions, no two records of the output have the
\* same file and the same start line.
C10_NoDuplicateRecords ==
    pc = "done" =>
        \A k, m \in 1..Len(output.data) :
            (output.data[k].file = output.data[m].file
                 /\ StartLine(output.data[k]) = StartLine(output.data[m])) => k = m

====
